---- MODULE Spec2Model ----
(***************************************************************************)
(* Model of the LLM benchmarking harness:                                  *)
(*   providers/vllm_provider.py   vLLM.perform_inference,                  *)
(*                                vLLM.perform_inference_streaming         *)
(*   benchmarking/benchmark_main.py  Benchmark.run, Benchmark.plot_metrics *)
(*   benchmarking/dynamo_bench.py    Benchmark.clean_data,                 *)
(*                                   add_metric_data, store_data_points    *)
(*                                                                         *)
(* Time is counted in integer ticks of time.perf_counter / timer, from the  *)
(* start of each call.  The request and every wait for a line of the body  *)
(* take a whole number of ticks; the readings of the clock made while one  *)
(* line is handled fall in the same tick.  Every sample of the store is    *)
(* kept exact, as the fraction [num, den].                                 *)
(***************************************************************************)
EXTENDS Integers, Sequences, FiniteSets, TLC

VARIABLES metrics, call, ncalls, returned_ok, run, sleeps, plots,
          benchmark_data, table

vars == <<metrics, call, ncalls, returned_ok, run, sleeps, plots,
          benchmark_data, table>>

(***************************************************************************)
(* Bounds of the model.                                                    *)
(***************************************************************************)
MaxLines == 3
MaxCalls == 2

(***************************************************************************)
(* Program constants and vocabularies.                                     *)
(***************************************************************************)
\* Python's None, and the marker of a local that has not been bound yet.
None == -1

Models == {"common-model", "common-model-small"}

MetricNames == {"timetofirsttoken", "response_times", "timebetweentokens",
                "timebetweentokens_median", "timebetweentokens_p95",
                "totaltokens", "tps"}

Tokens == {"A", "B"}

\* Ticks the wait for the next line of the body may take.
Deltas == {1}

(***************************************************************************)
(* Raw lines of the response body, as response.iter_lines() yields them.   *)
(*   empty    b""                          (falsy)                         *)
(*   blank    whitespace only              (truthy, strips to "")          *)
(*   done     "data: [DONE]"                                               *)
(*   data     "data: " + JSON object with choices[0].text = text           *)
(*   badjson  "data: " + text that json.loads rejects                      *)
(*   notext   "data: " + JSON without choices[0]["text"]                   *)
(*   other    any other non-blank line, without the "data:" prefix         *)
(***************************************************************************)
Line(k, t) == [kind |-> k, text |-> t]

NoLine == Line("none", "")

Lines == {Line(k, "") : k \in {"empty", "blank", "done", "badjson", "notext", "other"}}
         \cup {Line("data", t) : t \in Tokens}

\* `if line:` on a bytes object
Truthy(line) == line.kind # "empty"

\* line.decode("utf-8").strip() == "data: [DONE]"
IsDone(line) == line.kind = "done"

\* line_str.startswith("data:")
StartsWithData(line) == line.kind \in {"done", "data", "badjson", "notext"}

\* json.loads(chunk) returns
JsonLoads(line) == line.kind \in {"data", "notext"}

\* chunk_json["choices"][0]["text"] exists
HasText(line) == line.kind = "data"

(***************************************************************************)
(* Arithmetic helpers.                                                     *)
(***************************************************************************)
\* An exact real: num / den with den > 0.
Rat(n, d) == [num |-> n, den |-> d]

RECURSIVE SumSeq(_)
SumSeq(s) == IF s = <<>> THEN 0 ELSE Head(s) + SumSeq(Tail(s))

\* a < b
RatLess(a, b) ==
    IF a.den = b.den THEN a.num < b.num ELSE a.num * b.den < b.num * a.den

\* np.sort: ascending.  rank[i] is the place of s[i] in the sorted array
\* (equal values keep their order); it is built once, as a tuple.
Sort(s) ==
    LET n    == Len(s)
        rank == <<>> \o [i \in 1..n |->
                   1 + Cardinality({j \in 1..n :
                          RatLess(s[j], s[i]) \/ (~RatLess(s[i], s[j]) /\ j < i)})]
    IN [k \in 1..n |-> s[CHOOSE i \in 1..n : rank[i] = k]]

\* np.percentile(a, q) with the default linear interpolation, for a non-empty
\* list a of whole ticks: the value at position (len - 1) * q / 100 of the
\* sorted list, interpolated between its two neighbours.
Percentile(a, q) ==
    LET srt  == Sort([i \in 1..Len(a) |-> Rat(a[i], 1)])
        pos  == (Len(a) - 1) * q
        lo   == (pos \div 100) + 1
        frac == pos % 100
        hi   == IF lo < Len(a) THEN lo + 1 ELSE lo
    IN  Rat(100 * srt[lo].num + frac * (srt[hi].num - srt[lo].num), 100)

(***************************************************************************)
(* Python values of the persisted data structure, as tagged records:       *)
(* t is the type; a str has s; a float or a Decimal is num / den; a list   *)
(* has items; a dict has keys and items in insertion order.                *)
(***************************************************************************)
Py(t, s, num, den, keys, items) ==
    [t |-> t, s |-> s, num |-> num, den |-> den, keys |-> keys, items |-> items]

PyNone == Py("none", "", 0, 1, <<>>, <<>>)
PyStr(x) == Py("str", x, 0, 1, <<>>, <<>>)
PyFloat(n, d) == Py("float", "", n, d, <<>>, <<>>)
PyDecimal(n, d) == Py("Decimal", "", n, d, <<>>, <<>>)
PyList(items) == Py("list", "", 0, 1, <<>>, items)
PyDict(keys, items) == Py("dict", "", 0, 1, keys, items)

\* Fractional digits kept of the decimal text str() writes for a float.
DecimalDigits == 4

RECURSIVE Pow10(_)
Pow10(d) == IF d = 0 THEN 1 ELSE 10 * Pow10(d - 1)

\* Decimal(str(x)) for the float x = n / d >= 0: the decimal nearest to x.
DecimalStr(n, d) ==
    PyDecimal((2 * n * Pow10(DecimalDigits) + d) \div (2 * d), Pow10(DecimalDigits))

\* key in d
DictHas(d, k) == \E i \in 1..Len(d.keys) : d.keys[i] = k

\* d[key]
DictGet(d, k) == d.items[CHOOSE i \in 1..Len(d.keys) : d.keys[i] = k]

\* d[key] = value
DictSet(d, k, v) ==
    IF DictHas(d, k)
    THEN PyDict(d.keys, [i \in 1..Len(d.keys) |->
                           IF d.keys[i] = k THEN v ELSE d.items[i]])
    ELSE PyDict(Append(d.keys, k), Append(d.items, v))

(***************************************************************************)
(* The metrics store: metrics[metric][model] is the series of samples.     *)
(***************************************************************************)
EmptyMetrics == [k \in MetricNames |-> [m \in Models |-> <<>>]]

\* No curve drawn yet for any metric.
NoPlots == [k \in MetricNames |-> <<>>]

\* provider.metrics[metric].items(): the models a sample was recorded for
\* (a series is created by its first sample).
SeriesItems(mt, metric) == {m \in Models : mt[metric][m] # <<>>}

\* ProviderInterface.log_metrics(model, metric, value)
LogMetrics(mt, model, metric, value) ==
    [mt EXCEPT ![metric][model] = Append(@, value)]

(***************************************************************************)
(* One call of a provider method.                                          *)
(***************************************************************************)
Failure == [ok |-> FALSE, text |-> <<>>, total |-> None]

IdleCall ==
    [pc |-> "idle", model |-> "common-model", verbosity |-> FALSE,
     clock |-> 0, start_time |-> None, first_token_time |-> None,
     ttft |-> None, prev_token_time |-> None, total_time |-> None,
     inter_token_latencies |-> <<>>, generated_text |-> <<>>,
     line |-> NoLine, nlines |-> 0, ret |-> Failure]

\* perform_inference_streaming up to the return of requests.post: the locals
\* are initialised, start_time is read and the request has taken one tick.
BeginStreaming(model, verbosity) ==
    [IdleCall EXCEPT !.pc = "reading", !.model = model,
                     !.verbosity = verbosity, !.start_time = 0, !.clock = 1]

\* The except clause: print the error, return (None, None).
Raised(c) == [c EXCEPT !.pc = "returned", !.ret = Failure]

\* LoopBody with a malformed chunk skipped instead of raising.
LoopBody_skipMalformed(c, line, d) ==
    LET c0 == [c EXCEPT !.line = line, !.nlines = @ + 1,
                        !.clock = @ + d]
    IN
    IF ~Truthy(line) THEN c0
    ELSE
      LET c1 == IF c0.first_token_time = None
                THEN [c0 EXCEPT !.first_token_time = c0.clock,
                                !.ttft = c0.clock - c0.start_time,
                                !.prev_token_time = c0.clock]
                ELSE c0
          now == c1.clock
      IN
      IF IsDone(line)
      THEN [c1 EXCEPT !.total_time = now - c1.start_time,
                      !.pc = "break"]
      ELSE IF StartsWithData(line) /\ JsonLoads(line) /\ HasText(line)
      THEN [c1 EXCEPT !.prev_token_time = now,
                      !.generated_text = Append(@, line.text),
                      !.inter_token_latencies =
                          Append(@, now - c1.prev_token_time)]
      ELSE c1

\* One iteration of `for line in response.iter_lines()`, the line having
\* arrived after d ticks.  pc becomes "break" at the sentinel and "raised"
\* when the body throws.
LoopBody(c, line, d) ==
    LET c0 == [c EXCEPT !.line = line, !.nlines = @ + 1,
                        !.clock = @ + d]
    IN
    IF ~Truthy(line) THEN c0
    ELSE
      LET c1 == IF c0.first_token_time = None
                THEN [c0 EXCEPT !.first_token_time = c0.clock,
                                !.ttft = c0.clock - c0.start_time,
                                !.prev_token_time = c0.clock]
                ELSE c0
          now == c1.clock
      IN
      IF IsDone(line)
      THEN [c1 EXCEPT !.total_time = now - c1.start_time,
                      !.pc = "break"]
      ELSE IF StartsWithData(line)
      THEN LET c2 == [c1 EXCEPT !.prev_token_time = now]
               inter_token_latency == now - c1.prev_token_time
           IN IF ~(JsonLoads(line) /\ HasText(line))
              THEN [c2 EXCEPT !.pc = "raised"]
              ELSE [c2 EXCEPT !.generated_text = Append(@, line.text),
                              !.inter_token_latencies =
                                  Append(@, inter_token_latency)]
      ELSE c1

\* AfterLoop with the empty latency list averaged to 0 instead of dividing
\* by its length.
AfterLoop_avgZeroOnEmpty(c, mt) ==
    LET lat == c.inter_token_latencies
        n   == Len(lat)
        m   == c.model
        avg_tbt == IF n = 0 THEN Rat(0, 1) ELSE Rat(SumSeq(lat), n)
        med == IF n = 0 THEN Rat(0, 1) ELSE Percentile(lat, 50)
        p95 == IF n = 0 THEN Rat(0, 1) ELSE Percentile(lat, 95)
        mt1 == LogMetrics(mt, m, "timetofirsttoken", Rat(c.ttft, 1))
        mt2 == LogMetrics(mt1, m, "response_times", Rat(c.total_time, 1))
        mt3 == LogMetrics(mt2, m, "timebetweentokens", avg_tbt)
        mt4 == LogMetrics(mt3, m, "timebetweentokens_median", med)
        mt5 == LogMetrics(mt4, m, "timebetweentokens_p95", p95)
        mt6 == LogMetrics(mt5, m, "totaltokens", Rat(n + 1, 1))
        mt7 == LogMetrics(mt6, m, "tps", Rat(n + 1, c.total_time))
    IN
    IF c.ttft = None \/ (c.verbosity /\ c.total_time = None)
    THEN [call |-> Raised(c), metrics |-> mt]
    ELSE IF c.total_time = None
    THEN [call |-> Raised(c), metrics |-> mt1]
    ELSE IF c.total_time = 0
    THEN [call |-> Raised(c), metrics |-> mt6]
    ELSE [call |-> [c EXCEPT !.pc = "returned",
                             !.ret = [ok |-> TRUE, text |-> c.generated_text,
                                      total |-> c.total_time]],
          metrics |-> mt7]

\* The code after the loop: averages, the verbose report, the seven
\* log_metrics calls and the return.  An exception leaves the samples logged
\* before it in place.
AfterLoop(c, mt) ==
    LET lat == c.inter_token_latencies
        n   == Len(lat)
        m   == c.model
    IN
    IF n = 0
    THEN [call |-> Raised(c), metrics |-> mt]
    ELSE
      LET avg_tbt == Rat(SumSeq(lat), n)
          mt1 == LogMetrics(mt, m, "timetofirsttoken", Rat(c.ttft, 1))
          mt2 == LogMetrics(mt1, m, "response_times", Rat(c.total_time, 1))
          mt3 == LogMetrics(mt2, m, "timebetweentokens", avg_tbt)
          mt4 == LogMetrics(mt3, m, "timebetweentokens_median", Percentile(lat, 50))
          mt5 == LogMetrics(mt4, m, "timebetweentokens_p95", Percentile(lat, 95))
          mt6 == LogMetrics(mt5, m, "totaltokens", Rat(n + 1, 1))
          mt7 == LogMetrics(mt6, m, "tps", Rat(n + 1, c.total_time))
      IN
      IF c.verbosity /\ (c.ttft = None \/ c.total_time = None)
      THEN [call |-> Raised(c), metrics |-> mt]
      ELSE IF c.ttft = None
      THEN [call |-> Raised(c), metrics |-> mt]
      ELSE IF c.total_time = None
      THEN [call |-> Raised(c), metrics |-> mt1]
      ELSE IF c.total_time = 0
      THEN [call |-> Raised(c), metrics |-> mt6]
      ELSE [call |-> [c EXCEPT !.pc = "returned",
                               !.ret = [ok |-> TRUE, text |-> c.generated_text,
                                        total |-> c.total_time]],
            metrics |-> mt7]

\* What a call that has just returned adds to the count of calls that gave
\* their caller a result other than (None, None): 1 from the return
\* statement, 0 from the except clause and while the call is still running.
Returns(c) == IF c.pc = "returned" /\ c.ret.ok THEN 1 ELSE 0

\* Where the loop body left the call: the exception handler after a raise,
\* the code after the loop after a break, the next iteration otherwise.
Settle(c, mt) ==
    CASE c.pc = "raised" -> [call |-> Raised(c), metrics |-> mt]
      [] c.pc = "break"  -> AfterLoop(c, mt)
      [] OTHER           -> [call |-> c, metrics |-> mt]

(***************************************************************************)
(* Actions of the streaming call, one per step of the handler.             *)
(***************************************************************************)
otherVars == <<run, sleeps, plots, benchmark_data, table>>

\* A caller starts a streaming call on the model "common-model".
StartStreaming ==
    /\ call.pc \in {"idle", "returned"}
    /\ ncalls < MaxCalls
    /\ \E v \in BOOLEAN : call' = BeginStreaming("common-model", v)
    /\ ncalls' = ncalls + 1
    /\ UNCHANGED <<metrics, returned_ok, otherVars>>

\* requests.post or the next read of the body raises (connection, timeout).
TransportError ==
    /\ call.pc = "reading"
    /\ call' = Raised(call)
    /\ UNCHANGED <<metrics, ncalls, returned_ok, otherVars>>

\* The body yields one more line.
ReadLine ==
    /\ call.pc = "reading"
    /\ call.nlines < MaxLines
    /\ \E line \in Lines, d \in Deltas :
         LET fin == Settle(LoopBody(call, line, d), metrics)
         IN /\ call' = fin.call
            /\ metrics' = fin.metrics
            /\ returned_ok' = returned_ok + Returns(fin.call)
    /\ UNCHANGED <<ncalls, otherVars>>

\* The body ends: the for loop is left without a break.
StreamExhausted ==
    /\ call.pc = "reading"
    /\ LET fin == AfterLoop(call, metrics)
       IN /\ call' = fin.call
          /\ metrics' = fin.metrics
          /\ returned_ok' = returned_ok + Returns(fin.call)
    /\ UNCHANGED <<ncalls, otherVars>>

InitStream ==
    /\ metrics = EmptyMetrics
    /\ call = IdleCall
    /\ ncalls = 0
    /\ returned_ok = 0
    /\ run = [pc |-> "off"]
    /\ sleeps = <<>>
    /\ plots = NoPlots
    /\ benchmark_data = PyNone
    /\ table = <<>>

NextStream == StartStreaming \/ TransportError \/ ReadLine \/ StreamExhausted

SpecStream == InitStream /\ [][NextStream]_vars

(***************************************************************************)
(* The empirical CDF of a series, as both reporters compute it.            *)
(***************************************************************************)
\* np.sort(latencies) * 1000: ascending, in milliseconds
SortedMs(latencies) ==
    LET srt == Sort(latencies)
    IN [i \in 1..Len(srt) |-> Rat(srt[i].num * 1000, srt[i].den)]

\* np.arange(0, n) / n, the ranks counted from zero.
CdfOf_fromZero(n) == [i \in 1..n |-> Rat(i - 1, n)]

\* np.arange(1, n + 1) / n
CdfOf(n) == [i \in 1..n |-> Rat(i, n)]

\* The two arrays benchmark_main.plot_metrics hands to plt.plot.
PlotCdf(latencies) ==
    [latencies_sorted |-> SortedMs(latencies), cdf |-> CdfOf(Len(latencies))]

\* plot_metrics(metric) of benchmark_main.py: one curve per model of the
\* metric's series.
PlotMetric(mt, metric) ==
    [m \in SeriesItems(mt, metric) |-> PlotCdf(mt[metric][m])]

(***************************************************************************)
(* vLLM.perform_inference and perform_inference_streaming as whole calls,  *)
(* the way Benchmark.run issues them.                                      *)
(***************************************************************************)
\* outcome: "post_raises" (requests.post throws), "bad_body" (the response
\* arrives but response.json() throws), "ok".
PerformInference(mt, model, verbosity, outcome, elapsed) ==
    LET c   == [IdleCall EXCEPT !.model = model, !.verbosity = verbosity,
                                !.start_time = 0, !.clock = elapsed]
        mt1 == LogMetrics(mt, model, "response_times", Rat(elapsed, 1))
    IN CASE outcome = "post_raises" -> [call |-> Raised(c), metrics |-> mt]
         [] outcome = "bad_body"    -> [call |-> Raised(c), metrics |-> mt1]
         [] OTHER -> [call |-> [c EXCEPT !.pc = "returned",
                                         !.ret = [ok |-> TRUE, text |-> <<>>,
                                                  total |-> elapsed]],
                      metrics |-> mt1]

Ev(line, d) == [line |-> line, d |-> d]

\* The for loop over the lines of one response body.
RECURSIVE Consume(_, _)
Consume(c, evs) ==
    IF evs = <<>> \/ c.pc # "reading" THEN c
    ELSE Consume(LoopBody(c, Head(evs).line, Head(evs).d), Tail(evs))

\* stream.events: the lines the body yields, with the ticks each took;
\* stream.error: the transport raises once they are consumed.
PerformInferenceStreaming(mt, model, verbosity, stream) ==
    LET c == Consume(BeginStreaming(model, verbosity), stream.events)
    IN IF c.pc = "reading"
       THEN IF stream.error THEN [call |-> Raised(c), metrics |-> mt]
            ELSE AfterLoop(c, mt)
       ELSE Settle(c, mt)

(***************************************************************************)
(* Benchmark.run of benchmark_main.py.                                     *)
(***************************************************************************)
NumRequests == 60
SmallRequests == 2

\* (i + 1) % 30 == 0
PaceEvery == 30

Providers == <<"vLLM">>

\* The runs explored: a long one of one model, and short ones of two models
\* in every mode.
RunConfigs ==
    {[models |-> <<"common-model">>, num_requests |-> NumRequests,
      streaming |-> st, verbosity |-> TRUE] : st \in BOOLEAN}
    \cup {[models |-> <<"common-model", "common-model-small">>,
           num_requests |-> SmallRequests,
           streaming |-> st, verbosity |-> v] : st \in BOOLEAN, v \in BOOLEAN}

\* Response bodies the server answers a streaming request with.
RunStreams ==
    {[events |-> <<Ev(Line("data", "A"), 1), Ev(Line("data", "B"), 1),
                   Ev(Line("done", ""), 1)>>, error |-> FALSE],
     [events |-> <<Ev(Line("data", "A"), 1)>>, error |-> FALSE],
     [events |-> <<Ev(Line("data", "A"), 1), Ev(Line("badjson", ""), 1)>>,
      error |-> FALSE],
     [events |-> <<Ev(Line("done", ""), 1)>>, error |-> FALSE],
     [events |-> <<>>, error |-> TRUE]}

RunOutcomes == {"post_raises", "bad_body", "ok"}

\* the sleep placed after the call of index i instead of before the call of
\* index i + 1 = 30, 60, ...
PaceDue_afterCall(i) == i > 0 /\ i % PaceEvery = 0

\* if (i+1) % 30 == 0: time.sleep(120)
PaceDue(i) == (i + 1) % PaceEvery = 0

\* The three nested for loops, advanced by one iteration of the innermost.
NextPos(r) ==
    IF r.i + 1 < r.num_requests THEN [r EXCEPT !.i = @ + 1]
    ELSE IF r.m < Len(r.models) THEN [r EXCEPT !.m = @ + 1, !.i = 0]
    ELSE IF r.p < Len(Providers) THEN [r EXCEPT !.p = @ + 1, !.m = 1, !.i = 0]
    ELSE [r EXCEPT !.pc = "plot"]

\* One iteration of `for i in range(self.num_requests)`: the pacing sleep
\* when due, then the inference call.  A sleep is logged with the number of
\* calls of this (provider, model) loop issued before it.
RunIteration ==
    /\ run.pc = "loop"
    /\ sleeps' = IF PaceDue(run.i)
                 THEN Append(sleeps, [p |-> run.p, m |-> run.m, after |-> run.i])
                 ELSE sleeps
    /\ LET model == run.models[run.m]
       IN IF run.streaming
          THEN \E stream \in RunStreams :
                 LET r == PerformInferenceStreaming(metrics, model,
                                                    run.verbosity, stream)
                 IN /\ call' = r.call
                    /\ metrics' = r.metrics
                    /\ returned_ok' = returned_ok + Returns(r.call)
          ELSE \E outcome \in RunOutcomes :
                 LET r == PerformInference(metrics, model, run.verbosity,
                                           outcome, 1)
                 IN /\ call' = r.call
                    /\ metrics' = r.metrics
                    /\ returned_ok' = returned_ok + Returns(r.call)
    /\ run' = [NextPos(run) EXCEPT !.issued[run.p][run.m] = @ + 1]
    /\ UNCHANGED <<ncalls, plots, benchmark_data, table>>

PlottedMetrics(streaming) ==
    IF streaming
    THEN {"timetofirsttoken", "response_times", "timebetweentokens",
          "timebetweentokens_median", "timebetweentokens_p95"}
    ELSE {"response_times"}

\* The plot_metrics calls that end run(): one CDF per model of each metric.
RunPlot ==
    /\ run.pc = "plot"
    /\ plots' = [k \in MetricNames |->
                   IF k \in PlottedMetrics(run.streaming)
                   THEN PlotMetric(metrics, k) ELSE plots[k]]
    /\ run' = [run EXCEPT !.pc = "done"]
    /\ UNCHANGED <<metrics, call, ncalls, returned_ok, sleeps, benchmark_data,
                 table>>

InitRun ==
    /\ metrics = EmptyMetrics
    /\ call = IdleCall
    /\ ncalls = 0
    /\ returned_ok = 0
    /\ \E cfg \in RunConfigs :
         run = [pc |-> "loop", streaming |-> cfg.streaming,
                verbosity |-> cfg.verbosity,
                models |-> cfg.models, num_requests |-> cfg.num_requests,
                p |-> 1, m |-> 1, i |-> 0,
                issued |-> [p \in 1..Len(Providers) |->
                              [m \in 1..Len(cfg.models) |-> 0]]]
    /\ sleeps = <<>>
    /\ plots = NoPlots
    /\ benchmark_data = PyNone
    /\ table = <<>>

NextRun == RunIteration \/ RunPlot

SpecRun == InitRun /\ [][NextRun]_vars

(***************************************************************************)
(* dynamo_bench.py: the data structure of a run and its persistence.       *)
(***************************************************************************)
MaxSeries == 4
MaxItems == 2

\* vLLM.get_model_name
GetModelName(model) ==
    CASE model = "common-model" ->
           "./../scratch/models--meta-llama--Llama-3.3-70B-Instruct/snapshots/6f6073b423013f6a7d4d9f39144961bfbfbc386b"
      [] model = "common-model-small" -> "meta-llama/Llama-3.1-8B"
      [] OTHER -> "facebook/opt-125m"

\* Benchmark.__init__: self.benchmark_data
NewBenchmarkData(prompt) ==
    PyDict(<<"run_id", "timestamp", "prompt", "providers">>,
           <<PyStr("uuid4"), PyStr("now"), PyStr(prompt), PyDict(<<>>, <<>>)>>)

\* the indices of the members that `v not in [None, '', [], {}]` keeps
IsEmptyValue(v) ==
    \/ v.t = "none"
    \/ (v.t = "str" /\ v.s = "")
    \/ (v.t = "list" /\ v.items = <<>>)
    \/ (v.t = "dict" /\ v.items = <<>>)

KeptIdx(items) ==
    SelectSeq([i \in 1..Len(items) |-> i], LAMBDA i : ~IsEmptyValue(items[i]))

\* Benchmark.clean_data
RECURSIVE clean_data(_)
clean_data(data) ==
    IF data.t = "dict"
    THEN LET keep == KeptIdx(data.items)
         IN PyDict([i \in 1..Len(keep) |-> data.keys[keep[i]]],
                   [i \in 1..Len(keep) |-> clean_data(data.items[keep[i]])])
    ELSE IF data.t = "list"
    THEN LET keep == KeptIdx(data.items)
         IN PyList([i \in 1..Len(keep) |-> clean_data(data.items[keep[i]])])
    ELSE IF data.t = "float"
    THEN DecimalStr(data.num, data.den)
    ELSE data

\* Benchmark.add_metric_data
add_metric_data(bd, provider_name, model_name, metric, latencies) ==
    LET srt   == SortedMs(latencies)
        cdf   == CdfOf(Len(srt))
        latencies_sorted == [i \in 1..Len(srt) |-> DecimalStr(srt[i].num, srt[i].den)]
        cdf_d == [i \in 1..Len(cdf) |-> DecimalStr(cdf[i].num, cdf[i].den)]
        provs == DictGet(bd, "providers")
        provs1 == IF DictHas(provs, provider_name) THEN provs
                  ELSE DictSet(provs, provider_name, PyDict(<<>>, <<>>))
        prov  == DictGet(provs1, provider_name)
        prov1 == IF DictHas(prov, model_name) THEN prov
                 ELSE DictSet(prov, model_name, PyDict(<<>>, <<>>))
        entry == PyDict(<<"latencies", "cdf">>,
                        <<PyList(latencies_sorted), PyList(cdf_d)>>)
        mdl   == DictSet(DictGet(prov1, model_name), metric, entry)
    IN DictSet(bd, "providers",
               DictSet(provs1, provider_name, DictSet(prov1, model_name, mdl)))

\* Benchmark.plot_metrics of dynamo_bench.py, for the one provider
RECURSIVE AddAll(_, _, _, _)
AddAll(bd, mt, metric, todo) ==
    IF todo = {} THEN bd
    ELSE LET m == CHOOSE x \in todo : TRUE
         IN AddAll(add_metric_data(bd, "vLLM", GetModelName(m), metric, mt[metric][m]),
                   mt, metric, todo \ {m})

\* plot_metrics(metric) of benchmark_main.py
PlotMetrics ==
    /\ \E metric \in {"response_times", "timetofirsttoken"} :
         plots' = [plots EXCEPT ![metric] = PlotMetric(metrics, metric)]
    /\ UNCHANGED <<metrics, call, ncalls, returned_ok, run, sleeps,
                 benchmark_data, table>>

\* plot_metrics(metric) of dynamo_bench.py
CollectMetrics ==
    /\ \E metric \in {"response_times", "timetofirsttoken"} :
         benchmark_data' = AddAll(benchmark_data, metrics, metric,
                                  SeriesItems(metrics, metric))
    /\ UNCHANGED <<metrics, call, ncalls, returned_ok, run, sleeps, plots, table>>

\* Benchmark.store_data_points: the cleaned structure is put in the table,
\* unless put_item raises ClientError.
StoreDataPoints ==
    /\ \E put_ok \in BOOLEAN :
         table' = IF put_ok THEN <<clean_data(benchmark_data)>> ELSE table
    /\ UNCHANGED <<metrics, call, ncalls, returned_ok, run, sleeps, plots,
                 benchmark_data>>

\* Samples a series may hold, in ticks.
SampleValues == {Rat(1, 1), Rat(2, 1), Rat(3, 2)}

SeriesInputs == UNION {[1..n -> SampleValues] : n \in 0..MaxSeries}

InitCdf ==
    /\ \E series \in SeriesInputs, other \in {<<>>, <<Rat(2, 1), Rat(1, 1)>>} :
         metrics = [EmptyMetrics EXCEPT
                       !["response_times"]["common-model"] = series,
                       !["response_times"]["common-model-small"] = other]
    /\ call = IdleCall
    /\ ncalls = 0
    /\ returned_ok = 0
    /\ run = [pc |-> "off"]
    /\ sleeps = <<>>
    /\ plots = NoPlots
    /\ benchmark_data = NewBenchmarkData("prompt")
    /\ table = <<>>

NextCdf == PlotMetrics \/ CollectMetrics \/ StoreDataPoints

SpecCdf == InitCdf /\ [][NextCdf]_vars

\* Nested structures handed to clean_data.
Leaves == {PyNone, PyStr(""), PyStr("x"), PyFloat(3, 2)}

ListsOf(vals) == {PyList(items) : items \in UNION {[1..n -> vals] : n \in 0..MaxItems}}

DictsOf(vals) ==
    {PyDict(<<>>, <<>>)}
    \cup {PyDict(<<k>>, <<v>>) : k \in {"a", "b"}, v \in vals}
    \cup {PyDict(<<"a", "b">>, <<v, w>>) : v \in vals, w \in vals}

NestedData == DictsOf(Leaves \cup ListsOf(Leaves) \cup DictsOf(Leaves))

InitClean ==
    /\ metrics = EmptyMetrics
    /\ call = IdleCall
    /\ ncalls = 0
    /\ returned_ok = 0
    /\ run = [pc |-> "off"]
    /\ sleeps = <<>>
    /\ plots = NoPlots
    /\ benchmark_data \in NestedData
    /\ table = <<>>

NextClean == StoreDataPoints

SpecClean == InitClean /\ [][NextClean]_vars

(***************************************************************************)
(* Properties of the streaming call.                                       *)
(***************************************************************************)
Last(s) == s[Len(s)]

Malformed == {"badjson", "notext"}

\* C1: a streaming call that completes and records metrics has collected one
\* latency fewer than the token texts it appended, and its 'totaltokens'
\* sample is the number of token texts appended.
C1_LatenciesOneLessThanTokens ==
    (call.pc = "returned" /\ call.ret.ok) =>
        /\ Len(call.inter_token_latencies) = Len(call.generated_text) - 1
        /\ Last(metrics["totaltokens"][call.model]) = Rat(Len(call.generated_text), 1)

\* C2: when the body is exhausted without the sentinel having been read, the
\* call returns the failure value and no series of the store changes.
C2_IncompleteStreamRecordsNothing ==
    [][StreamExhausted => (call'.ret = Failure /\ metrics' = metrics)]_vars

\* C4: a data line whose payload is not valid JSON or lacks the first-choice
\* text ends the call at that line with the failure value, and every series
\* is as it was before the call (the store is untouched while lines are read).
C4_MalformedChunkFailsCall ==
    [][(ReadLine /\ call'.line.kind \in Malformed) =>
          (/\ call'.pc = "returned"
           /\ call'.ret = Failure
           /\ call'.nlines = call.nlines + 1
           /\ metrics' = metrics)]_vars

C4_Witness ==
    /\ call.pc = "returned"
    /\ call.line.kind \in Malformed
    /\ call.ret = Failure
    /\ Len(call.generated_text) >= 1
    /\ Len(call.inter_token_latencies) >= 1

\* C5: a streaming call that ends with no data chunk decoded (sentinel first,
\* or no line at all) returns the failure value and changes no series.
C5_EmptyStreamFailsCall ==
    [][(call.pc = "reading" /\ call'.pc = "returned"
        /\ call'.generated_text = <<>>) =>
          (call'.ret = Failure /\ metrics' = metrics)]_vars

C5_Witness ==
    /\ call.pc = "returned"
    /\ call.line.kind = "done"
    /\ call.generated_text = <<>>
    /\ call.total_time # None
    /\ call.ret = Failure

\* C6: a stream of exactly one data chunk and then the sentinel gives
\* ttft = total_time, no inter-token latency, and no 'timebetweentokens'
\* sample.
C6_SingleTokenHasNoAverage ==
    [][(ReadLine /\ call'.line.kind = "done" /\ call'.nlines = 2
        /\ Len(call'.generated_text) = 1) =>
          (/\ call'.ttft = call'.total_time
           /\ call'.inter_token_latencies = <<>>
           /\ metrics'["timebetweentokens"] = metrics["timebetweentokens"])]_vars

\* C9: every non-blank line before the sentinel either appends exactly its
\* token text to the generated text or fails the call, and a blank line
\* leaves the timing and text state as it was.
C9_EveryLineDecodedOrFails ==
    [][ReadLine =>
          (/\ (call'.line.kind \notin {"empty", "blank", "done"}) =>
                 \/ /\ call'.line.kind = "data"
                    /\ call'.generated_text =
                           Append(call.generated_text, call'.line.text)
                 \/ (call'.pc = "returned" /\ call'.ret = Failure)
           /\ (call'.line.kind \in {"empty", "blank"}) =>
                 /\ call'.first_token_time = call.first_token_time
                 /\ call'.prev_token_time = call.prev_token_time
                 /\ call'.ttft = call.ttft
                 /\ call'.inter_token_latencies = call.inter_token_latencies
                 /\ call'.generated_text = call.generated_text)]_vars

(***************************************************************************)
(* Properties of Benchmark.run.                                            *)
(***************************************************************************)
TotalCalls(r) == Len(Providers) * Len(r.models) * r.num_requests

RECURSIVE SumIssued(_, _)
SumIssued(f, k) == IF k = 0 THEN 0 ELSE f[k] + SumIssued(f, k - 1)

IssuedTotal(r) == SumIssued(r.issued[1], Len(r.models))

\* C3: a failing inference call never aborts the run: the loop goes on to the
\* next repetition, every one of the providers x models x num_requests calls
\* is issued, and the failed call appends no sample to any series.
C3_FailedCallKeepsRunGoing ==
    [][RunIteration =>
          (/\ IssuedTotal(run') = IssuedTotal(run) + 1
           /\ (run'.pc = "plot") = (IssuedTotal(run') = TotalCalls(run))
           /\ (call'.ret = Failure => metrics' = metrics))]_vars

\* The calls of the loop of (p, m) that a sleep came right after, in order.
RECURSIVE AftersOf(_, _, _)
AftersOf(sl, p, m) ==
    IF sl = <<>> THEN <<>>
    ELSE IF Head(sl).p = p /\ Head(sl).m = m
         THEN <<Head(sl).after>> \o AftersOf(Tail(sl), p, m)
         ELSE AftersOf(Tail(sl), p, m)

\* The calls c - 1 for the multiples c of PaceEvery up to n, ascending.
PaceMarks(n) == [k \in 1..(n \div PaceEvery) |-> k * PaceEvery - 1]

\* C7 (as claimed): in a (provider, model) loop of 60 calls exactly one pause
\* is made, after the 30th call was issued and before the 31st.
C7_OnePauseAfterThirtiethCall ==
    \A m \in 1..Len(run.models) :
        run.issued[1][m] = 2 * PaceEvery => AftersOf(sleeps, 1, m) = <<PaceEvery>>

\* C7 (amended): in every (provider, model) loop the pause is made right
\* before each call whose 1-based number is a multiple of 30, that call not
\* yet issued: with n calls issued the pauses are those after calls 29, 59,
\* ... below n, so 60 calls see two pauses, before the 30th and the 60th.
C7_PauseBeforeEveryThirtiethCall ==
    \A m \in 1..Len(run.models) :
        AftersOf(sleeps, 1, m) = PaceMarks(run.issued[1][m])

C7_Witness ==
    /\ run.issued[1][1] = 2 * PaceEvery
    /\ AftersOf(sleeps, 1, 1) = <<PaceEvery - 1, 2 * PaceEvery - 1>>

(***************************************************************************)
(* Properties of the reporters.                                            *)
(***************************************************************************)
Count(seq, x) == Cardinality({i \in 1..Len(seq) : seq[i] = x})

IsPermutation(a, b) ==
    /\ Len(a) = Len(b)
    /\ \A i \in 1..Len(a) : Count(a, a[i]) = Count(b, a[i])

Ascending(seq) ==
    \A i \in 1..(Len(seq) - 1) : ~RatLess(seq[i + 1], seq[i])

InMs(series) == [i \in 1..Len(series) |-> Rat(series[i].num * 1000, series[i].den)]

InMsDecimal(series) ==
    [i \in 1..Len(series) |-> DecimalStr(series[i].num * 1000, series[i].den)]

\* The CDF holds the samples sorted ascending against rank / count.
GoodCdf(values, probs, samples) ==
    LET n == Len(samples)
    IN /\ Len(values) = n /\ Len(probs) = n
       /\ Ascending(values) /\ Ascending(probs)
       /\ probs[n].num = probs[n].den
       /\ IsPermutation(values, samples)

Stored(metric, m) ==
    DictGet(DictGet(DictGet(DictGet(benchmark_data, "providers"), "vLLM"),
                    GetModelName(m)), metric)

IsStored(metric, m) ==
    LET provs == DictGet(benchmark_data, "providers")
    IN /\ DictHas(provs, "vLLM")
       /\ DictHas(DictGet(provs, "vLLM"), GetModelName(m))
       /\ DictHas(DictGet(DictGet(provs, "vLLM"), GetModelName(m)), metric)

RECURSIVE NoEmptyValue(_)
NoEmptyValue(v) ==
    \A i \in 1..Len(v.items) :
        ~IsEmptyValue(v.items[i]) /\ NoEmptyValue(v.items[i])

\* C10: what clean_data returns holds no None, empty string, empty list or
\* empty dict at any depth, and cleaning it again changes nothing.
C10_CleanDataStripsAllEmpties ==
    table # <<>> =>
        /\ NoEmptyValue(table[1])
        /\ clean_data(table[1]) = table[1]

\* C11: between streaming calls on one provider and model, each of the seven
\* series of that model holds exactly one sample per call that returned a
\* result other than the failure value, so all seven have the same length.
C11_SeriesLengthIsSuccessCount ==
    call.pc \in {"idle", "returned"} =>
        \A k \in MetricNames : Len(metrics[k][call.model]) = returned_ok

====
